---- MODULE Spec2Model ----
(***************************************************************************)
(* A model of the request router, the hybrid executor and their provider   *)
(* dispatch in src/src/apis/api_manager.py (class APIManager).             *)
(*                                                                         *)
(* The program runs on one asyncio event loop: a coroutine runs without    *)
(* interruption until it awaits a network round-trip.  Every action below  *)
(* is therefore one such uninterrupted stretch of a coroutine: from its    *)
(* start, or from the completion of the network call it awaited, up to the *)
(* next network call it awaits or to its return/raise.                     *)
(***************************************************************************)
EXTENDS Naturals, Sequences, FiniteSets

\* Upstream generated texts are drawn from 1..MaxText.
MaxText == 2

\* Token counts reported by an upstream are drawn from 0..MaxTokens.
MaxTokens == 1

\* A response given to synthesize_responses carries at most MaxCitations
\* citations.
MaxCitations == 2

\* The process receives at most MaxSignals SIGINT or SIGTERM signals.
MaxSignals == 2

\* A direct caller of the orchestrator has its api_manager closed at most
\* MaxCloses times.
MaxCloses == 3

(***************************************************************************)
(* Values                                                                  *)
(***************************************************************************)

\* The two provider clients held by the manager (api_manager.py:42-43); the
\* strings are the `source` each one's responses carry.
Clients == {"gemini", "perplexity"}

\* class APIType(Enum)
APIType == {"reasoning", "search", "generation", "analysis", "fact_check"}

\* The ways an upstream call fails inside a provider client: every one is a
\* subclass of Exception re-raised by the client's `except Exception: raise`.
UpstreamFailures == {"timeout", "http_status", "malformed_payload"}

\* An exception object: its kind, the component that raised it, and its
\* __cause__ (empty: no `raise ... from` occurs in the program).
Exc(kind, by) == [type |-> "Exception", kind |-> kind, by |-> by, cause |-> <<>>]

\* ValueError("No APIs available for request type: ...")
NoApisError == Exc("no_apis_available", "router")

\* ValueError("<Client> API does not support request type: ...")
UnsupportedError(client) == Exc("unsupported_request_type", client)

\* The exceptions a provider client's network call can raise.
UpstreamError(kind, client) == Exc(kind, client)

\* asyncio.CancelledError, which a task raises at the await it is suspended
\* on when it is cancelled.  It derives from BaseException, not Exception.
CancelledError ==
    [type |-> "BaseException", kind |-> "cancelled", by |-> "event_loop",
     cause |-> <<>>]

\* The value of the local `e` before any `except ... as e` has bound it.
Unbound == [type |-> "Unbound"]

\* An attempt whose network call has not completed yet.
Pending == [type |-> "Pending"]

IsException(x) == x.type = "Exception"

\* @dataclass APIResponse, as far as the router fills it.
APIResponse(content, source) ==
    [type |-> "APIResponse", content |-> content, source |-> source]

\* What an upstream returns on success: the generated text.
Payloads == [type : {"Payload"}, text : 1..MaxText]

IsPayload(x) == x.type = "Payload"

(***************************************************************************)
(* The routing table                                                       *)
(***************************************************************************)

\* Mutant: the search category also lists the reasoning client as fallback.
InitialRoutingSearchFallback ==
    [t \in APIType |->
        CASE t = "reasoning"  -> <<"gemini">>
          [] t = "search"     -> <<"perplexity", "gemini">>
          [] t = "generation" -> <<"gemini">>
          [] t = "analysis"   -> <<"gemini", "perplexity">>
          [] t = "fact_check" -> <<"perplexity">>]

\* self.api_routing as __init__ builds it.
InitialRouting ==
    [t \in APIType |->
        CASE t = "reasoning"  -> <<"gemini">>
          [] t = "search"     -> <<"perplexity">>
          [] t = "generation" -> <<"gemini">>
          [] t = "analysis"   -> <<"gemini", "perplexity">>
          [] t = "fact_check" -> <<"perplexity">>]

\* dict.get(request_type, [])
AvailableApis(table, request_type) ==
    IF request_type \in DOMAIN table THEN table[request_type] ELSE <<>>

\* Mutant: the primary is taken out of the list the table holds.
RoutingAfterPop(table, request_type) ==
    IF request_type \in DOMAIN table /\ table[request_type] # <<>>
    THEN [table EXCEPT ![request_type] = Tail(@)]
    ELSE table

\* The table after a route_request call has looked its candidates up:
\* available_apis is the very list the table holds, and lines 69-87 only
\* read it (a truth test, [0], and the copy [1:]).
RoutingAfterLookup(table, request_type) == table

\* The request types each _execute_*_request accepts before any network call.
GeminiSupports == {"reasoning", "generation", "analysis"}

\* Mutant: the search client accepts every request type.
PerplexitySupportsAll == APIType

PerplexitySupports == {"search", "analysis", "fact_check"}

\* _execute_request: dispatch on the client's class, then the `if request_type in`.
Supports(client, request_type) ==
    IF client = "gemini" THEN request_type \in GeminiSupports
                         ELSE request_type \in PerplexitySupports

(***************************************************************************)
(* State                                                                   *)
(***************************************************************************)

\* api_routing : the manager's routing table (an instance attribute).
\* call        : the coroutines that run route_request or _execute_request:
\*               one awaited directly by a caller, and the two tasks that
\*               hybrid_request hands to asyncio.gather.
\* hyb         : the hybrid_request coroutine.
\* done_order  : history: gather's tasks in the order in which they finished.
\* syn         : the synthesize_responses coroutine.
VARIABLES api_routing, call, hyb, done_order, syn,
          assistant, orchestrator, cli, close_calls, shutdown_tasks

vars == <<api_routing, call, hyb, done_order, syn,
          assistant, orchestrator, cli, close_calls, shutdown_tasks>>

routerVars == <<api_routing, call, hyb, done_order>>

synVars == <<syn>>

appVars == <<assistant, orchestrator, cli, close_calls, shutdown_tasks>>

\* The coroutine a caller awaits directly, and gather's two tasks.
Caller == "caller"

SearchTask == "search_task"

ReasoningTask == "reasoning_task"

Slots == {Caller, SearchTask, ReasoningTask}

\* The frame of a coroutine that is not running:
\*   pc             idle | scheduled | awaiting | returned | raised
\*   op             the coroutine function: route | execute | none
\*   available_apis the local of route_request (line 69)
\*   idx            1 for the primary, 2.. for the fallbacks, 0 before any
\*   e              the local bound by `except Exception as e` (line 79)
\*   attempts       history: every _execute_request call made, in order, with
\*                  whether it reached the network and how it ended (Pending,
\*                  the upstream's payload, or the exception raised)
\*   result         the value returned or the exception raised
\*   log            the records route_request has written to its logger
IdleCall ==
    [pc |-> "idle", op |-> "none", request_type |-> "none",
     available_apis |-> <<>>, idx |-> 0, e |-> Unbound,
     attempts |-> <<>>, result |-> Unbound, log |-> <<>>]

Raise(rec, exc) == [rec EXCEPT !.pc = "raised", !.result = exc]

Return(rec, value) == [rec EXCEPT !.pc = "returned", !.result = value]

LastOutcome(rec) == rec.attempts[Len(rec.attempts)].outcome

LastOutcomeClient(rec) == rec.attempts[Len(rec.attempts)].client

SetOutcome(rec, out) ==
    [rec EXCEPT !.attempts[Len(rec.attempts)].outcome = out]

(***************************************************************************)
(* route_request and _execute_request                                      *)
(***************************************************************************)

\* _execute_request up to its first await: either the provider's network call
\* is issued (pc = "awaiting"), or the request type is rejected before any
\* network call (pc = "rejected", the ValueError being the attempt's outcome).
ExecuteRequest(rec, client) ==
    IF Supports(client, rec.request_type)
    THEN [rec EXCEPT !.pc = "awaiting",
                     !.attempts = Append(@, [client |-> client, network |-> TRUE,
                                             outcome |-> Pending])]
    ELSE [rec EXCEPT !.pc = "rejected",
                     !.attempts = Append(@, [client |-> client, network |-> FALSE,
                                             outcome |-> UnsupportedError(client)])]

\* Mutant: the last fallback's error is raised instead of the primary's.
ExhaustedErrorLast(rec) == LastOutcome(rec)

\* `raise e` (line 99), then the outer handler's bare `raise` (line 103).
ExhaustedError(rec) == rec.e

\* Mutant: every remaining candidate is invoked at once, none awaited first.
TryCandidateAllAtOnce(rec, i) ==
    IF i > Len(rec.available_apis)
    THEN Raise(rec, ExhaustedError(rec))
    ELSE [rec EXCEPT !.pc = "awaiting", !.idx = i,
                     !.attempts = @ \o [j \in 1..(Len(rec.available_apis) - i + 1) |->
                                          [client |-> rec.available_apis[i + j - 1],
                                           network |-> TRUE, outcome |-> Pending]]]

\* Mutant: a failed primary is not followed by any fallback.
AfterFailureNoFallback(rec, exc) == Raise(rec, exc)

\* logger.warning of lines 80-84 (the primary failed) and 91-95 (a fallback
\* failed): the event, the failed client's class name and str(error).
LogWarning(rec, exc) ==
    [rec EXCEPT !.log = Append(@,
        [level |-> "warning",
         event |-> IF rec.idx = 1 THEN "Primary API failed, trying fallback"
                                  ELSE "Fallback API failed",
         api |-> rec.available_apis[rec.idx],
         error |-> exc])]

\* The outer handler of lines 101-103: logger.error with the request type
\* and the error, then the bare `raise`.
RouteRaise(rec, exc) ==
    Raise([rec EXCEPT !.log = Append(@,
              [level |-> "error", event |-> "API routing failed",
               request_type |-> rec.request_type, error |-> exc])],
          exc)

RECURSIVE TryCandidate(_, _)

\* The handlers of lines 79-96: the primary's exception is bound to e, a
\* fallback's only to fallback_error; either way the failure is logged and
\* the next candidate is tried.
AfterFailure(rec, exc) ==
    TryCandidate(LogWarning([rec EXCEPT !.e = IF rec.idx = 1 THEN exc ELSE @], exc),
                 rec.idx + 1)

\* Lines 75-99 from candidate i on, up to the next await or to the raise.
TryCandidate(rec, i) ==
    IF i > Len(rec.available_apis)
    THEN RouteRaise(rec, ExhaustedError(rec))
    ELSE LET r == ExecuteRequest([rec EXCEPT !.idx = i], rec.available_apis[i])
         IN  IF r.pc = "awaiting" THEN r ELSE AfterFailure(r, LastOutcome(r))

\* Mutant: the candidate list is not checked for emptiness.
RouteRequestUnchecked(table, request_type) ==
    TryCandidate([IdleCall EXCEPT !.op = "route", !.request_type = request_type,
                                  !.available_apis = AvailableApis(table, request_type)],
                 1)

\* route_request from its entry up to its first await (lines 67-78).
RouteRequest(table, request_type) ==
    LET rec == [IdleCall EXCEPT !.op = "route", !.request_type = request_type,
                                !.available_apis = AvailableApis(table, request_type)]
    IN  IF rec.available_apis = <<>>
        THEN RouteRaise(rec, NoApisError)
        ELSE TryCandidate(rec, 1)

\* A bare _execute_request(api_client, request_type, ...) up to its first await.
ExecuteOnly(client, request_type) ==
    LET rec == [IdleCall EXCEPT !.op = "execute", !.request_type = request_type]
        r   == ExecuteRequest(rec, client)
    IN  IF r.pc = "awaiting" THEN r ELSE Raise(r, LastOutcome(r))

\* Mutant: the search client's responses are labelled like the reasoning
\* client's.
NormalizeAsGemini(client, payload) == APIResponse(payload.text, "gemini")

\* The APIResponse _execute_gemini_request / _execute_perplexity_request build
\* from the provider's answer.
Normalize(client, payload) == APIResponse(payload.text, client)

\* Mutant: a success does not end the call while candidates remain.
OnSuccessKeepsGoing(rec, payload) ==
    IF rec.op = "route" /\ rec.idx < Len(rec.available_apis)
    THEN TryCandidate(SetOutcome(rec, payload), rec.idx + 1)
    ELSE Return(SetOutcome(rec, payload), Normalize(LastOutcomeClient(rec), payload))

\* The awaited provider call returned: `return await self._execute_request(...)`.
OnSuccess(rec, payload) ==
    Return(SetOutcome(rec, payload), Normalize(LastOutcomeClient(rec), payload))

\* Mutant: a candidate whose call failed is asked once more before the next.
OnFailureRetriesOnce(rec, exc) ==
    IF rec.op = "route"
    THEN IF Len(rec.attempts) = rec.idx
         THEN ExecuteRequest(SetOutcome(rec, exc), rec.available_apis[rec.idx])
         ELSE AfterFailure(SetOutcome(rec, exc), exc)
    ELSE Raise(SetOutcome(rec, exc), exc)

\* The awaited provider call raised.
OnFailure(rec, exc) ==
    IF rec.op = "route"
    THEN AfterFailure(SetOutcome(rec, exc), exc)
    ELSE Raise(SetOutcome(rec, exc), exc)

\* route_request when the await of line 78 or 89 raises CancelledError: none
\* of its `except Exception` clauses (lines 79, 90, 101) catches it, so it
\* leaves the coroutine without a log record and without a further candidate.
OnCancelled(rec) == Raise(SetOutcome(rec, CancelledError), CancelledError)

(***************************************************************************)
(* hybrid_request                                                          *)
(***************************************************************************)

\* The frame of hybrid_request:
\*   pc       idle | gathering | returned | raised
\*   tasks    the awaitables handed to asyncio.gather, in list order
\*   results  the dict `results`, as its (key, value) pairs in insertion order
\*   error    the exception the call raised, if it did
IdleHybrid ==
    [pc |-> "idle", use_search |-> FALSE, use_reasoning |-> FALSE,
     tasks |-> <<>>, results |-> <<>>, error |-> Unbound]

\* A route_request coroutine wrapped in a task by gather and not yet run.
Scheduled(request_type) ==
    [IdleCall EXCEPT !.pc = "scheduled", !.op = "route",
                     !.request_type = request_type]

\* The request type each task's coroutine was created with (lines 194, 199).
TaskType(slot) == IF slot = SearchTask THEN "search" ELSE "reasoning"

\* Lines 190-200: the task list.
BuildTasks(use_search, use_reasoning) ==
    (IF use_search THEN <<SearchTask>> ELSE <<>>)
        \o (IF use_reasoning THEN <<ReasoningTask>> ELSE <<>>)

Finished(rec) == rec.pc \in {"returned", "raised"}

\* Mutant: a task is started only once the tasks before it have finished.
RunnableInTurn(h, calls, slot) ==
    /\ calls[slot].pc = "scheduled"
    /\ \A i \in 1..Len(h.tasks) :
          (\E j \in (i + 1)..Len(h.tasks) : h.tasks[j] = slot)
            => Finished(calls[h.tasks[i]])

\* gather wraps every awaitable in a task at once (ensure_future): the event
\* loop may run any task that has not started, whatever the others do.
Runnable(h, calls, slot) == calls[slot].pc = "scheduled"

\* Mutant: the gathering coroutine resumes as soon as one task has finished.
GatherReadyOnFirst(h, calls) ==
    \E i \in 1..Len(h.tasks) : Finished(calls[h.tasks[i]])

\* Mutant: the gathering coroutine resumes only when every task has returned
\* a response.
GatherReadyOnSuccess(h, calls) ==
    \A i \in 1..Len(h.tasks) : calls[h.tasks[i]].pc = "returned"

\* The future gather returns is done when every task is done.
GatherReady(h, calls) ==
    \A i \in 1..Len(h.tasks) : Finished(calls[h.tasks[i]])

\* The history of completions after `slot`'s frame became `rec`.
NoteCompletion(order, slot, rec) ==
    IF slot # Caller /\ Finished(rec) THEN Append(order, slot) ELSE order

\* Mutant: gather without return_exceptions, which raises the first exception.
GatherRaising(outcomes) ==
    IF \E i \in 1..Len(outcomes) : IsException(outcomes[i])
    THEN [raised |-> TRUE,
          value |-> outcomes[CHOOSE i \in 1..Len(outcomes) :
                                 /\ IsException(outcomes[i])
                                 /\ \A j \in 1..(i - 1) : ~IsException(outcomes[j])]]
    ELSE [raised |-> FALSE, value |-> outcomes]

\* asyncio.gather(*tasks, return_exceptions=True): once every task has
\* finished, the list of their results and exceptions in task order.
Gather(outcomes) == [raised |-> FALSE, value |-> outcomes]

\* results[key] = value, for a key the dict does not hold yet.
DictSet(dict, key, value) == Append(dict, [key |-> key, value |-> value])

Keys(dict) == [i \in 1..Len(dict) |-> dict[i].key]

\* Mutant: exceptions are stored like responses.
ProcessResultsKeepsErrors(use_search, use_reasoning, responses) ==
    LET withSearch ==
            IF use_search /\ Len(responses) > 0
            THEN DictSet(<<>>, "search", responses[1])
            ELSE <<>>
        reasoning_index == IF use_search THEN 1 ELSE 0
    IN  IF use_reasoning /\ Len(responses) > reasoning_index
        THEN DictSet(withSearch, "reasoning", responses[reasoning_index + 1])
        ELSE withSearch

\* Mutant: the reasoning result is always looked up at position 1.
ProcessResultsFixedIndex(use_search, use_reasoning, responses) ==
    LET withSearch ==
            IF use_search /\ Len(responses) > 0 /\ ~IsException(responses[1])
            THEN DictSet(<<>>, "search", responses[1])
            ELSE <<>>
    IN  IF /\ use_reasoning
           /\ Len(responses) > 1
           /\ ~IsException(responses[2])
        THEN DictSet(withSearch, "reasoning", responses[2])
        ELSE withSearch

\* Mutant: the reasoning result is stored before the search result.
ProcessResultsReasoningFirst(use_search, use_reasoning, responses) ==
    LET reasoning_index == IF use_search THEN 1 ELSE 0
        withReasoning ==
            IF /\ use_reasoning
               /\ Len(responses) > reasoning_index
               /\ ~IsException(responses[reasoning_index + 1])
            THEN DictSet(<<>>, "reasoning", responses[reasoning_index + 1])
            ELSE <<>>
    IN  IF use_search /\ Len(responses) > 0 /\ ~IsException(responses[1])
        THEN DictSet(withReasoning, "search", responses[1])
        ELSE withReasoning

\* Mutant: the reasoning result is always read from the first position.
ProcessResultsFirstPosition(use_search, use_reasoning, responses) ==
    LET withSearch ==
            IF use_search /\ Len(responses) > 0 /\ ~IsException(responses[1])
            THEN DictSet(<<>>, "search", responses[1])
            ELSE <<>>
    IN  IF use_reasoning /\ Len(responses) > 0 /\ ~IsException(responses[1])
        THEN DictSet(withSearch, "reasoning", responses[1])
        ELSE withSearch

\* Lines 205-218; Python's responses[k] is responses[k + 1] here.
ProcessResults(use_search, use_reasoning, responses) ==
    LET withSearch ==
            IF use_search /\ Len(responses) > 0 /\ ~IsException(responses[1])
            THEN DictSet(<<>>, "search", responses[1])
            ELSE <<>>
        reasoning_index == IF use_search THEN 1 ELSE 0
    IN  IF /\ use_reasoning
           /\ Len(responses) > reasoning_index
           /\ ~IsException(responses[reasoning_index + 1])
        THEN DictSet(withSearch, "reasoning", responses[reasoning_index + 1])
        ELSE withSearch

\* hybrid_request from the completion of gather to its return, or to the
\* re-raise of lines 223-225.
HybridFinish(h, gathered) ==
    IF gathered.raised
    THEN [h EXCEPT !.pc = "raised", !.error = gathered.value]
    ELSE [h EXCEPT !.pc = "returned",
                   !.results = ProcessResults(h.use_search, h.use_reasoning,
                                              gathered.value)]

(***************************************************************************)
(* synthesize_responses                                                    *)
(***************************************************************************)

UsageKeys == {"prompt_tokens", "completion_tokens", "total_tokens"}

\* The usage dicts an upstream reports in full: prompt and completion tokens
\* of up to MaxTokens each, and their total.
TokenCounts ==
    {[prompt_tokens |-> p, completion_tokens |-> c, total_tokens |-> p + c] :
        p \in 0..MaxTokens, c \in 0..MaxTokens}

\* Optional[List[Dict]]: None, or the list of citation records.
NoCitations == [is_none |-> TRUE, items |-> <<>>]

CitationList(items) == [is_none |-> FALSE, items |-> items]

\* An APIResponse with every field synthesize_responses reads or writes.
FullResponse(content, source, usage, metadata, citations) ==
    [type |-> "APIResponse", content |-> content, source |-> source,
     usage |-> usage, metadata |-> metadata, citations |-> citations]

\* self.gemini_client.model_name
GeminiModel == "gemini_model"

\* What generate_text returns: the text, and a usage dict that always has the
\* three keys (gemini_client.py lines 84-88).
GeminiAnswers ==
    [type : {"GeminiResponse"}, content : 1..MaxText,
     usage : TokenCounts, model : {GeminiModel}]

\* The default of line 236 and the system instruction of line 259.
DefaultSynthesisPrompt == "Synthesize the following information"

SynthesisInstruction == "You are an expert at synthesizing information"

\* Lines 235-236: `if not synthesis_prompt`.
EffectivePrompt(synthesis_prompt) ==
    IF synthesis_prompt \in {"None", ""} THEN DefaultSynthesisPrompt
                                         ELSE synthesis_prompt

\* response.usage.get(key, 0)
UsageGet(usage, key) == IF key \in DOMAIN usage THEN usage[key] ELSE 0

\* Mutant: each block is labelled with the response's own source field.
BlockBySource(key, response) == [label |-> response.source, content |-> response.content]

\* f"From {source}:\n{response.content}", source being the dict key.
Block(key, response) == [label |-> key, content |-> response.content]

\* Mutant: citations already collected are not collected again.
ExtendUnique(all_citations, citations) ==
    IF citations.is_none THEN all_citations
    ELSE all_citations \o SelectSeq(citations.items,
             LAMBDA c : \A i \in 1..Len(all_citations) : all_citations[i] # c)

\* Lines 246-247: `if response.citations: all_citations.extend(...)`.
Extend(all_citations, citations) ==
    IF citations.is_none \/ citations.items = <<>>
    THEN all_citations
    ELSE all_citations \o citations.items

\* The locals of the loop of lines 239-251 before its first iteration.
LoopStart ==
    [combined_content |-> <<>>, all_citations |-> <<>>,
     total_usage |-> [k \in UsageKeys |-> 0]]

\* One iteration of the loop of lines 243-251.
LoopBody(acc, key, response) ==
    [combined_content |-> Append(acc.combined_content, Block(key, response)),
     all_citations |-> Extend(acc.all_citations, response.citations),
     total_usage |-> [k \in UsageKeys |->
                         acc.total_usage[k] + UsageGet(response.usage, k)]]

RECURSIVE Loop(_, _)

\* The loop of lines 243-251 over responses.items(), first n entries.
Loop(responses, n) ==
    IF n = 0 THEN LoopStart
    ELSE LoopBody(Loop(responses, n - 1), responses[n].key, responses[n].value)

\* The identity of an object: the usage dict or the citations list of the
\* n-th input response, or one created by synthesize_responses itself.
InputRef(n, field) == [owner |-> "input", index |-> n, field |-> field]

\* `all_citations = []` (line 240) and `total_usage = {...}` (line 241).
NewRef(field) == [owner |-> "synthesize_responses", index |-> 0, field |-> field]

\* The objects the mapping's responses hold.
InputRefs(responses) ==
    {InputRef(n, f) : n \in 1..Len(responses), f \in {"usage", "citations"}}

\* Mutant: the usage is read with response.usage.setdefault(key, 0), which
\* stores the default in the response's own dict.
AfterReadSetDefault(response) ==
    [response EXCEPT !.usage = [k \in UsageKeys |-> UsageGet(response.usage, k)]]

\* An input response after one iteration of the loop has read it (lines
\* 244-251): .content and .citations are read, .citations is the argument
\* of extend, which copies its items, and .usage is read with .get.
AfterRead(response) == response

\* The input responses after the loop of lines 243-251.
InputsAfterLoop(responses) ==
    [n \in 1..Len(responses) |->
        [key |-> responses[n].key, value |-> AfterRead(responses[n].value)]]

\* Mutant: the synthesis call's own usage is not added.
AddSynthesisUsageDropped(total_usage, usage) == total_usage

\* Lines 263-265.
AddSynthesisUsage(total_usage, usage) ==
    [k \in UsageKeys |-> total_usage[k] + usage[k]]

\* The frame of synthesize_responses:
\*   pc        idle | awaiting | returned | raised
\*   responses the argument, as its (key, value) pairs in iteration order
\*   locals    combined_content, all_citations, total_usage after the loop
\*   request   the prompt and system instruction given to generate_text
\*   calls     history: the provider clients called, in order
\*   answer    history: what the synthesis call returned or raised
\*   inputs    the caller's response objects, as they are now
\*   refs      the identities of the result's usage and citations objects
IdleSynth ==
    [pc |-> "idle", responses |-> <<>>, locals |-> LoopStart,
     request |-> Unbound, calls |-> <<>>, answer |-> Unbound, result |-> Unbound,
     inputs |-> <<>>, refs |-> Unbound]

\* Line 257: the client whose generate_text does the synthesis.
SynthesisClient(responses) == "gemini"

\* Mutant: an empty mapping is refused before any provider call.
SynthesizeStartGuarded(responses, synthesis_prompt) ==
    IF responses = <<>>
    THEN [IdleSynth EXCEPT !.pc = "raised", !.answer = NoApisError,
                           !.result = NoApisError]
    ELSE [IdleSynth EXCEPT !.pc = "awaiting", !.responses = responses,
                           !.inputs = responses,
                           !.locals = Loop(responses, Len(responses)),
                           !.calls = <<SynthesisClient(responses)>>]

\* synthesize_responses from its entry to `await generate_text` (233-260).
SynthesizeStart(responses, synthesis_prompt) ==
    LET locals == Loop(responses, Len(responses))
    IN  [IdleSynth EXCEPT
            !.pc = "awaiting",
            !.responses = responses,
            !.inputs = InputsAfterLoop(responses),
            !.locals = locals,
            !.request = [type |-> "Request",
                         full_prompt |-> [prompt |-> EffectivePrompt(synthesis_prompt),
                                          blocks |-> locals.combined_content],
                         system_instruction |-> SynthesisInstruction],
            !.calls = <<SynthesisClient(responses)>>]

\* Mutant: metadata.sources lists the responses' source fields.
SourcesOfValues(responses) == [i \in 1..Len(responses) |-> responses[i].value.source]

\* list(responses.keys())
SourcesOfKeys(responses) == Keys(responses)

\* Lines 262-278: generate_text returned.
SynthesizeFinish(rec, answer) ==
    [rec EXCEPT
        !.pc = "returned",
        !.answer = answer,
        !.locals.total_usage = AddSynthesisUsage(@, answer.usage),
        !.refs = [type |-> "Refs", usage |-> NewRef("usage"),
                  citations |-> NewRef("citations")],
        !.result = FullResponse(
            answer.content, "synthesized",
            AddSynthesisUsage(rec.locals.total_usage, answer.usage),
            [sources |-> SourcesOfKeys(rec.responses),
             synthesis_model |-> answer.model],
            CitationList(rec.locals.all_citations))]

\* Mutant: a failed synthesis call is answered with the combined text.
SynthesizeRaiseSwallowed(rec, exc) ==
    [rec EXCEPT !.pc = "returned", !.answer = exc,
                !.result = FullResponse(0, "synthesized", rec.locals.total_usage,
                                        [sources |-> SourcesOfKeys(rec.responses),
                                         synthesis_model |-> GeminiModel],
                                        CitationList(rec.locals.all_citations))]

\* Lines 280-282: generate_text raised; the handler logs and re-raises.
SynthesizeRaise(rec, exc) ==
    [rec EXCEPT !.pc = "raised", !.answer = exc, !.result = exc]

(***************************************************************************)
(* The provider clients' answers, in full                                  *)
(***************************************************************************)

\* Python's None.
PyNone == [type |-> "None"]

\* A str; chars = 0 is the empty string.
Str(chars) == [type |-> "str", chars |-> chars]

\* What an upstream can hand back as the generated text: nothing, the empty
\* string, or a text.
UpstreamTexts == {PyNone} \cup {Str(n) : n \in 0..MaxText}

\* response.usage_metadata of the Gemini SDK: an object with three counts.
UsageMetadata ==
    {[prompt_token_count |-> p, candidates_token_count |-> c,
      total_token_count |-> p + c] : p \in 0..MaxTokens, c \in 0..MaxTokens}

\* What model.generate_content returns (gemini_client.py lines 76-88 read
\* its text and its usage_metadata, either of which may be missing).
GeminiUpstreams ==
    [type : {"Payload"}, text : UpstreamTexts,
     usage_metadata : {PyNone} \cup UsageMetadata]

\* The "usage" objects the search upstream can send: complete, or with keys
\* missing.
UsageObjects ==
    TokenCounts \cup {[k \in keys |-> MaxTokens] : keys \in {{}, {"prompt_tokens"}}}

\* The JSON body of /chat/completions as far as search_and_answer reads it
\* (perplexity_client.py lines 98-111): choices[0].message.content, and the
\* optional members "usage" and "citations".
PerplexityUpstreams ==
    {[type |-> "Payload", content |-> c] : c \in UpstreamTexts}
        \cup {[type |-> "Payload", content |-> c, usage |-> u] :
                 c \in UpstreamTexts, u \in UsageObjects}
        \cup {[type |-> "Payload", content |-> c, usage |-> u, citations |-> <<"c1">>] :
                 c \in UpstreamTexts, u \in TokenCounts}

UpstreamsOf(client) ==
    IF client = "gemini" THEN GeminiUpstreams ELSE PerplexityUpstreams

\* gemini_client.py lines 84-88.
GeminiUsage(response) ==
    IF response.usage_metadata = PyNone
    THEN [k \in UsageKeys |-> 0]
    ELSE [prompt_tokens |-> response.usage_metadata.prompt_token_count,
          completion_tokens |-> response.usage_metadata.candidates_token_count,
          total_tokens |-> response.usage_metadata.total_token_count]

\* gemini_client.py line 83: `response.text if response.text else ""`.
GeminiContent(response) ==
    IF response.text = PyNone \/ response.text = Str(0) THEN Str(0)
                                                        ELSE response.text

\* GeminiClient.generate_text, from the upstream's answer to its return.
GenerateText(response) ==
    [type |-> "GeminiResponse", content |-> GeminiContent(response),
     usage |-> GeminiUsage(response), model |-> GeminiModel]

\* self.perplexity_client.model_name
PerplexityModel == "perplexity_model"

\* PerplexityClient.search_and_answer, from the JSON body to its return
\* (lines 100-127): content as it is, citations or [], usage or {}.
SearchAndAnswer(data) ==
    [type |-> "PerplexityResponse",
     content |-> data.content,
     citations |-> IF "citations" \in DOMAIN data THEN data.citations ELSE <<>>,
     usage |-> IF "usage" \in DOMAIN data THEN data.usage ELSE [k \in {} |-> 0],
     model |-> PerplexityModel]

\* PerplexityClient.fact_check, lines 266-280, on the same JSON body.
FactCheck(data) ==
    LET response == SearchAndAnswer(data)
    IN  [verification |-> response.content, citations |-> response.citations,
         usage |-> response.usage, timestamp |-> "loop_time"]

\* _execute_gemini_request, lines 131-141.
ExecuteGeminiReturn(upstream) ==
    LET response == GenerateText(upstream)
    IN  FullResponse(response.content, "gemini", response.usage,
                     [model |-> response.model], NoCitations)

\* _execute_perplexity_request, lines 154-174.
ExecutePerplexityReturn(request_type, upstream) ==
    IF request_type = "fact_check"
    THEN LET result == FactCheck(upstream)
         IN  FullResponse(result.verification, "perplexity", result.usage,
                          [timestamp |-> result.timestamp],
                          CitationList(result.citations))
    ELSE LET response == SearchAndAnswer(upstream)
         IN  FullResponse(response.content, "perplexity", response.usage,
                          [model |-> response.model],
                          CitationList(response.citations))

\* _execute_request's dispatch (lines 114-119) on a provider call that
\* returned.
ExecuteReturn(client, request_type, upstream) ==
    IF client = "gemini" THEN ExecuteGeminiReturn(upstream)
                         ELSE ExecutePerplexityReturn(request_type, upstream)

\* The awaited provider call returned `upstream`: route_request returns the
\* APIResponse _execute_request built from it, every field included.
OnAnswer(rec, upstream) ==
    Return(SetOutcome(rec, upstream),
           ExecuteReturn(LastOutcomeClient(rec), rec.request_type, upstream))

(***************************************************************************)
(* Actions                                                                 *)
(***************************************************************************)

\* A caller awaits route_request(request_type, prompt).
RouteCall(request_type) ==
    /\ call[Caller].pc = "idle"
    /\ call' = [call EXCEPT ![Caller] = RouteRequest(api_routing, request_type)]
    /\ api_routing' = RoutingAfterLookup(api_routing, request_type)
    /\ UNCHANGED <<hyb, done_order>>
    /\ UNCHANGED <<synVars, appVars>>

\* A caller awaits _execute_request(client, request_type, prompt) itself.
ExecuteCall(client, request_type) ==
    /\ call[Caller].pc = "idle"
    /\ call' = [call EXCEPT ![Caller] = ExecuteOnly(client, request_type)]
    /\ UNCHANGED <<api_routing, hyb, done_order>>
    /\ UNCHANGED <<synVars, appVars>>

\* The event loop runs a task that gather scheduled.
TaskStart(slot) ==
    /\ Runnable(hyb, call, slot)
    /\ call' = [call EXCEPT ![slot] = RouteRequest(api_routing, call[slot].request_type)]
    /\ done_order' = NoteCompletion(done_order, slot, call'[slot])
    /\ api_routing' = RoutingAfterLookup(api_routing, call[slot].request_type)
    /\ UNCHANGED hyb
    /\ UNCHANGED <<synVars, appVars>>

\* Mutant: the answer is kept on the shared client, so that every coroutine
\* awaiting that client takes it.
ProviderRespondsShared(slot, payload) ==
    /\ call[slot].pc = "awaiting"
    /\ call' = [s \in Slots |->
                   IF /\ call[s].pc = "awaiting"
                      /\ LastOutcomeClient(call[s]) = LastOutcomeClient(call[slot])
                   THEN OnSuccess(call[s], payload)
                   ELSE call[s]]
    /\ done_order' = NoteCompletion(done_order, slot, call'[slot])
    /\ UNCHANGED <<api_routing, hyb>>
    /\ UNCHANGED <<synVars, appVars>>

\* The provider answers the network call a coroutine awaits.
ProviderResponds(slot, payload) ==
    /\ call[slot].pc = "awaiting"
    /\ call' = [call EXCEPT ![slot] = OnSuccess(call[slot], payload)]
    /\ done_order' = NoteCompletion(done_order, slot, call'[slot])
    /\ UNCHANGED <<api_routing, hyb>>
    /\ UNCHANGED <<synVars, appVars>>

\* The network call a coroutine awaits fails (timeout, status, bad payload).
ProviderFails(slot, kind) ==
    /\ call[slot].pc = "awaiting"
    /\ call' = [call EXCEPT ![slot] =
                   OnFailure(call[slot],
                             UpstreamError(kind, LastOutcomeClient(call[slot])))]
    /\ done_order' = NoteCompletion(done_order, slot, call'[slot])
    /\ UNCHANGED <<api_routing, hyb>>
    /\ UNCHANGED <<synVars, appVars>>

\* One of gather's tasks is cancelled while it awaits its provider.  gather
\* (return_exceptions=True) is not cancelled itself: it puts a CancelledError
\* in that task's place in the list of line 203.
TaskCancelled(slot) ==
    /\ slot \in {SearchTask, ReasoningTask}
    /\ call[slot].pc = "awaiting"
    /\ call' = [call EXCEPT ![slot] = OnCancelled(call[slot])]
    /\ done_order' = NoteCompletion(done_order, slot, call'[slot])
    /\ UNCHANGED <<api_routing, hyb>>
    /\ UNCHANGED <<synVars, appVars>>

\* The network call a coroutine awaits completes, one way or the other.
ProviderCompletes(slot) ==
    \/ \E p \in Payloads : ProviderResponds(slot, p)
    \/ \E k \in UpstreamFailures : ProviderFails(slot, k)

\* The caller takes the result of the coroutine it awaited.
CallerResumes ==
    /\ Finished(call[Caller])
    /\ call' = [call EXCEPT ![Caller] = IdleCall]
    /\ UNCHANGED <<api_routing, hyb, done_order>>
    /\ UNCHANGED <<synVars, appVars>>

\* A caller awaits hybrid_request(prompt, use_search, use_reasoning): the
\* coroutine runs to `await asyncio.gather(...)`, which suspends it unless
\* there is no task at all.
HybridCall(use_search, use_reasoning) ==
    /\ hyb.pc = "idle"
    /\ LET tasks == BuildTasks(use_search, use_reasoning)
           h     == [IdleHybrid EXCEPT !.use_search = use_search,
                                       !.use_reasoning = use_reasoning,
                                       !.tasks = tasks]
       IN  /\ hyb' = IF tasks = <<>>
                     THEN HybridFinish(h, Gather(<<>>))
                     ELSE [h EXCEPT !.pc = "gathering"]
           /\ call' = [s \in Slots |->
                          IF \E i \in 1..Len(tasks) : tasks[i] = s
                          THEN Scheduled(TaskType(s))
                          ELSE call[s]]
    /\ done_order' = <<>>
    /\ UNCHANGED api_routing
    /\ UNCHANGED <<synVars, appVars>>

\* Every task of gather has finished: hybrid_request resumes.
HybridResume ==
    /\ hyb.pc = "gathering"
    /\ GatherReady(hyb, call)
    /\ hyb' = HybridFinish(hyb,
                  Gather([i \in 1..Len(hyb.tasks) |-> call[hyb.tasks[i]].result]))
    /\ UNCHANGED <<api_routing, call, done_order>>
    /\ UNCHANGED <<synVars, appVars>>

\* The caller takes hybrid_request's result; its tasks are dropped.
HybridCallerResumes ==
    /\ hyb.pc \in {"returned", "raised"}
    /\ hyb' = IdleHybrid
    /\ call' = [s \in Slots |-> IF s = Caller THEN call[s] ELSE IdleCall]
    /\ done_order' = <<>>
    /\ UNCHANGED api_routing
    /\ UNCHANGED <<synVars, appVars>>

\* The labels hybrid_request gives its results.
Labels == {"search", "reasoning"}

CitationIds == {"c1", "c2"}

ZeroUsage == [k \in UsageKeys |-> 0]

\* The usage dicts of the responses given to synthesize_responses: complete
\* ones, and ones with keys missing (the search client passes the upstream's
\* usage object through as it is).
InputUsages ==
    TokenCounts
        \cup {[k \in keys |-> MaxTokens] : keys \in {{}, {"prompt_tokens"}}}

\* Their citations: None, or a list of at most MaxCitations records.
InputCitations ==
    {NoCitations}
        \cup {CitationList(items) :
                 items \in UNION {[1..n -> CitationIds] : n \in 0..MaxCitations}}

InputMetadata == [model |-> "upstream_model"]

\* The responses given to synthesize_responses: each varies the usage, the
\* citations, or the content and source of a plain response.
SynthResponses ==
    {FullResponse(1, "gemini", u, InputMetadata, NoCitations) : u \in InputUsages}
        \cup {FullResponse(1, "perplexity", ZeroUsage, InputMetadata, c) :
                 c \in InputCitations}
        \cup {FullResponse(t, src, ZeroUsage, InputMetadata, NoCitations) :
                 t \in 1..MaxText, src \in Clients}

\* The mappings given to synthesize_responses: any responses under distinct
\* labels, in any order, the empty mapping included.
SynthInputs ==
    {<<>>}
        \cup {<<[key |-> k, value |-> r]>> : k \in Labels, r \in SynthResponses}
        \cup {<<[key |-> ks[1], value |-> r1], [key |-> ks[2], value |-> r2]>> :
                 ks \in {<<"search", "reasoning">>, <<"reasoning", "search">>},
                 r1 \in SynthResponses, r2 \in SynthResponses}

\* The synthesis_prompt arguments: omitted, or the caller's own.
SynthesisPrompts == {"None", "Merge these answers"}

\* A caller awaits synthesize_responses(responses, synthesis_prompt).
SynthesizeCall ==
    /\ syn.pc = "idle"
    /\ \E responses \in SynthInputs, synthesis_prompt \in SynthesisPrompts :
           syn' = SynthesizeStart(responses, synthesis_prompt)
    /\ UNCHANGED <<routerVars, appVars>>

\* generate_text returns the synthesis.
SynthesisResponds(answer) ==
    /\ syn.pc = "awaiting"
    /\ syn' = SynthesizeFinish(syn, answer)
    /\ UNCHANGED <<routerVars, appVars>>

\* generate_text raises.
SynthesisFails(kind) ==
    /\ syn.pc = "awaiting"
    /\ syn' = SynthesizeRaise(syn, UpstreamError(kind, syn.calls[Len(syn.calls)]))
    /\ UNCHANGED <<routerVars, appVars>>

\* The caller takes the result of synthesize_responses.
SynthCallerResumes ==
    /\ syn.pc \in {"returned", "raised"}
    /\ syn' = IdleSynth
    /\ UNCHANGED <<routerVars, appVars>>

(***************************************************************************)
(* The application: main.py, core/orchestrator.py, ui/cli.py               *)
(***************************************************************************)

\* AutonomousAssistant after initialize() (main.py lines 39-73):
\*   pc      where the coroutine main() -> start() stands:
\*           initialized | cli_prompt | sleeping | closing | exited
\*   running self.running
NewAssistant == [pc |-> "initialized", running |-> FALSE]

\* AssistantOrchestrator after initialize() (orchestrator.py lines 18-30):
\*   running         self.running
\*   api_manager     "APIManager" once initialize built it, or "None"
\*   autonomous_mode settings.app.autonomous_mode
\*   loop            the task of _autonomous_loop:
\*                   none | pending | sleeping | done | cancelled
\*   client          the callers that use the orchestrator directly: the
\*                   method called last (op), the error that call raised,
\*                   and where the shutdown coroutine stands (none |
\*                   closing | returned | raised)
NewOrchestrator(autonomous_mode) ==
    [running |-> FALSE, api_manager |-> "APIManager",
     autonomous_mode |-> autonomous_mode, loop |-> "none",
     client |-> [op |-> "none", error |-> "none", shutdown |-> "none"]]

\* AssistantOrchestrator.__init__ (orchestrator.py lines 18-21): no
\* api_manager before initialize().
ConstructedOrchestrator(autonomous_mode) ==
    [NewOrchestrator(autonomous_mode) EXCEPT !.api_manager = "None"]

\* RuntimeError("Orchestrator not initialized")
NotInitializedError == "Orchestrator not initialized"

\* The callers' record after a call of `op` that raised `error`.
Called(o, op, error) == [o.client EXCEPT !.op = op, !.error = error]

\* CLIInterface.__init__ (cli.py lines 23-26).
NewCli == [running |-> FALSE]

\* What the user can type at the prompt.
Commands == {"exit", "quit", "bye", "help", "hello"}

\* cli.py line 41.
ExitCommands == {"exit", "quit", "bye"}

\* The positions at which main() is suspended in an await, so that the event
\* loop can run another task.
Suspended == {"cli_prompt", "sleeping", "closing"}

\* AssistantOrchestrator.start, lines 37-44 (api_manager is set).
OrchestratorStart(o) ==
    [o EXCEPT !.running = TRUE,
              !.loop = IF o.autonomous_mode THEN "pending" ELSE @]

\* Mutant: start sets the flag and creates the loop before it looks at
\* api_manager.
OrchestratorStartCallUnchecked(o) ==
    [OrchestratorStart(o) EXCEPT
        !.client = Called(o, "start", IF o.api_manager = "None"
                                      THEN NotInitializedError ELSE "none")]

\* AssistantOrchestrator.start as a direct caller awaits it (lines 32-44).
OrchestratorStartCall(o) ==
    IF o.api_manager = "None"
    THEN [o EXCEPT !.client = Called(o, "start", NotInitializedError)]
    ELSE [OrchestratorStart(o) EXCEPT !.client = Called(o, "start", "none")]

\* Mutant: shutdown closes the api_manager only of an orchestrator that
\* was running.
ShutdownClosesIfRunning(o) == o.running /\ o.api_manager # "None"

\* Line 51: `if self.api_manager`.
ShutdownCloses(o) == o.api_manager # "None"

\* AssistantOrchestrator.shutdown as a direct caller awaits it, up to the
\* await of close() or, without an api_manager, to its return (lines 46-54).
OrchestratorShutdownCall(o) ==
    [o EXCEPT !.running = FALSE,
              !.client = [op |-> "shutdown", error |-> "none",
                          shutdown |-> IF ShutdownCloses(o) THEN "closing"
                                                            ELSE "returned"]]

\* asyncio.run ends when main() returns: it cancels every task that has not
\* finished.
CancelTask(t) == IF t = "done" THEN t ELSE "cancelled"

CancelAll(tasks) == [i \in 1..Len(tasks) |-> CancelTask(tasks[i])]

CancelLoop(o) ==
    [o EXCEPT !.loop = IF @ \in {"pending", "sleeping"} THEN "cancelled" ELSE @]

\* AssistantOrchestrator.shutdown line 52: one more call of APIManager.close.
CloseCalled(n) == n + 1

\* start() reaches `finally: await self.shutdown()` (main.py lines 103-122):
\* running is cleared, the orchestrator's shutdown clears its own flag and
\* awaits api_manager.close(); without an api_manager nothing is awaited and
\* shutdown, start and main return at once.
EnterShutdown ==
    IF orchestrator.api_manager # "None"
    THEN /\ assistant' = [pc |-> "closing", running |-> FALSE]
         /\ orchestrator' = [orchestrator EXCEPT !.running = FALSE]
         /\ close_calls' = CloseCalled(close_calls)
         /\ UNCHANGED <<cli, shutdown_tasks>>
    ELSE /\ assistant' = [pc |-> "exited", running |-> FALSE]
         /\ orchestrator' = CancelLoop([orchestrator EXCEPT !.running = FALSE])
         /\ cli' = [cli EXCEPT !.running = FALSE]
         /\ shutdown_tasks' = CancelAll(shutdown_tasks)
         /\ UNCHANGED close_calls

\* main() awaits assistant.start() (main.py lines 75-90, orchestrator.py
\* 32-44, cli.py 27-36): up to the first prompt, or to the shutdown when the
\* orchestrator refuses to start.
AppStart ==
    /\ assistant.pc = "initialized"
    /\ IF orchestrator.api_manager = "None"
       THEN EnterShutdown
       ELSE /\ assistant' = [pc |-> "cli_prompt", running |-> TRUE]
            /\ orchestrator' = OrchestratorStart(orchestrator)
            /\ cli' = [cli EXCEPT !.running = TRUE]
            /\ UNCHANGED <<close_calls, shutdown_tasks>>
    /\ UNCHANGED <<routerVars, synVars>>

\* start() fails before the orchestrator is started (the banner of line 82
\* raises): `except Exception` logs, `finally` shuts down.
StartFails ==
    /\ assistant.pc = "initialized"
    /\ EnterShutdown
    /\ UNCHANGED <<routerVars, synVars>>

\* The prompt returns what the user typed (cli.py lines 35-47), and
\* CLIInterface.start goes round its loop or returns to start(), which then
\* sleeps or leaves its own loop (main.py lines 93-94).
CliInput(user_input) ==
    /\ assistant.pc = "cli_prompt"
    /\ IF user_input \notin ExitCommands /\ cli.running
       THEN UNCHANGED appVars
       ELSE IF assistant.running
            THEN /\ assistant' = [assistant EXCEPT !.pc = "sleeping"]
                 /\ UNCHANGED <<orchestrator, cli, close_calls, shutdown_tasks>>
            ELSE EnterShutdown
    /\ UNCHANGED <<routerVars, synVars>>

\* asyncio.sleep(1) of main.py line 94 returns, and `while self.running` is
\* evaluated again.
SleepReturns ==
    /\ assistant.pc = "sleeping"
    /\ IF assistant.running THEN UNCHANGED appVars ELSE EnterShutdown
    /\ UNCHANGED <<routerVars, synVars>>

\* The close() the main coroutine awaits returns: cli.shutdown() runs, and
\* shutdown(), start() and main() return (main.py lines 115-118).
CloseReturns ==
    /\ assistant.pc = "closing"
    /\ assistant' = [assistant EXCEPT !.pc = "exited"]
    /\ cli' = [cli EXCEPT !.running = FALSE]
    /\ orchestrator' = CancelLoop(orchestrator)
    /\ shutdown_tasks' = CancelAll(shutdown_tasks)
    /\ UNCHANGED close_calls
    /\ UNCHANGED <<routerVars, synVars>>

\* SIGINT or SIGTERM arrives: signal_handler creates a task that runs
\* assistant.shutdown() (main.py lines 176-178).
Signal ==
    /\ assistant.pc # "exited"
    /\ Len(shutdown_tasks) < MaxSignals
    /\ shutdown_tasks' = Append(shutdown_tasks, "pending")
    /\ UNCHANGED <<assistant, orchestrator, cli, close_calls>>
    /\ UNCHANGED <<routerVars, synVars>>

\* The event loop runs a task the signal handler created: shutdown() as far
\* as the await of api_manager.close() (main.py 106-113, orchestrator.py
\* 46-52).
TaskShutdownBegin(i) ==
    /\ assistant.pc \in Suspended
    /\ i \in 1..Len(shutdown_tasks)
    /\ shutdown_tasks[i] = "pending"
    /\ assistant' = [assistant EXCEPT !.running = FALSE]
    /\ orchestrator' = [orchestrator EXCEPT !.running = FALSE]
    /\ IF orchestrator.api_manager # "None"
       THEN /\ close_calls' = CloseCalled(close_calls)
            /\ shutdown_tasks' = [shutdown_tasks EXCEPT ![i] = "closing"]
            /\ UNCHANGED cli
       ELSE /\ cli' = [cli EXCEPT !.running = FALSE]
            /\ shutdown_tasks' = [shutdown_tasks EXCEPT ![i] = "done"]
            /\ UNCHANGED close_calls
    /\ UNCHANGED <<routerVars, synVars>>

\* The close() such a task awaits returns: cli.shutdown() runs and the task
\* ends (main.py lines 115-118).
TaskCloseReturns(i) ==
    /\ assistant.pc \in Suspended
    /\ i \in 1..Len(shutdown_tasks)
    /\ shutdown_tasks[i] = "closing"
    /\ cli' = [cli EXCEPT !.running = FALSE]
    /\ shutdown_tasks' = [shutdown_tasks EXCEPT ![i] = "done"]
    /\ UNCHANGED <<assistant, orchestrator, close_calls>>
    /\ UNCHANGED <<routerVars, synVars>>

\* Mutant: the loop asks the router for an analysis before it sleeps.
AutonomousLoopRoutes ==
    /\ assistant.pc \in Suspended
    /\ orchestrator.loop \in {"pending", "sleeping"}
    /\ orchestrator' = [orchestrator EXCEPT
                           !.loop = IF orchestrator.running THEN "sleeping"
                                                            ELSE "done"]
    /\ call' = [call EXCEPT ![Caller] = RouteRequest(api_routing, "analysis")]
    /\ UNCHANGED <<assistant, cli, close_calls, shutdown_tasks>>
    /\ UNCHANGED <<api_routing, hyb, done_order, synVars>>

\* The event loop runs _autonomous_loop (orchestrator.py lines 56-67): the
\* task starts, or its sleep returns; `while self.running` decides whether
\* it sleeps again or ends.
AutonomousLoopRuns ==
    /\ assistant.pc \in Suspended
    /\ orchestrator.loop \in {"pending", "sleeping"}
    /\ orchestrator' = [orchestrator EXCEPT
                           !.loop = IF orchestrator.running THEN "sleeping"
                                                            ELSE "done"]
    /\ UNCHANGED <<assistant, cli, close_calls, shutdown_tasks>>
    /\ UNCHANGED <<routerVars, synVars>>

\* A direct caller awaits orchestrator.initialize() (lines 23-30).
OrchInitialize ==
    /\ orchestrator' = [orchestrator EXCEPT
                           !.api_manager = "APIManager",
                           !.client = Called(orchestrator, "initialize", "none")]
    /\ UNCHANGED <<assistant, cli, close_calls, shutdown_tasks>>
    /\ UNCHANGED <<routerVars, synVars>>

\* A direct caller awaits orchestrator.start(), on an orchestrator none of
\* whose loop tasks is alive.
OrchStart ==
    /\ orchestrator.loop \notin {"pending", "sleeping"}
    /\ orchestrator' = OrchestratorStartCall(orchestrator)
    /\ UNCHANGED <<assistant, cli, close_calls, shutdown_tasks>>
    /\ UNCHANGED <<routerVars, synVars>>

\* A direct caller awaits orchestrator.shutdown(), no other shutdown being
\* under way.
OrchShutdown ==
    /\ orchestrator.client.shutdown # "closing"
    /\ close_calls < MaxCloses
    /\ orchestrator' = OrchestratorShutdownCall(orchestrator)
    /\ close_calls' = IF ShutdownCloses(orchestrator)
                      THEN CloseCalled(close_calls) ELSE close_calls
    /\ UNCHANGED <<assistant, cli, shutdown_tasks>>
    /\ UNCHANGED <<routerVars, synVars>>

\* The close() that shutdown awaits returns, and shutdown with it (lines
\* 52-54).
OrchCloseReturns ==
    /\ orchestrator.client.shutdown = "closing"
    /\ orchestrator' = [orchestrator EXCEPT !.client.shutdown = "returned"]
    /\ UNCHANGED <<assistant, cli, close_calls, shutdown_tasks>>
    /\ UNCHANGED <<routerVars, synVars>>

\* The close() that shutdown awaits raises: shutdown has no handler and
\* raises with it (line 52).
OrchCloseFails ==
    /\ orchestrator.client.shutdown = "closing"
    /\ orchestrator' = [orchestrator EXCEPT !.client.shutdown = "raised"]
    /\ UNCHANGED <<assistant, cli, close_calls, shutdown_tasks>>
    /\ UNCHANGED <<routerVars, synVars>>

\* The event loop runs the loop task of such an orchestrator: the task
\* starts, or its sleep returns (lines 56-67).
OrchLoopRuns ==
    /\ orchestrator.loop \in {"pending", "sleeping"}
    /\ orchestrator' = [orchestrator EXCEPT
                           !.loop = IF orchestrator.running THEN "sleeping"
                                                            ELSE "done"]
    /\ UNCHANGED <<assistant, cli, close_calls, shutdown_tasks>>
    /\ UNCHANGED <<routerVars, synVars>>

\* The provider answers the caller's network call with any answer its
\* upstream can give.
UpstreamAnswers(upstream) ==
    /\ call[Caller].pc = "awaiting"
    /\ upstream \in UpstreamsOf(LastOutcomeClient(call[Caller]))
    /\ call' = [call EXCEPT ![Caller] = OnAnswer(call[Caller], upstream)]
    /\ UNCHANGED <<api_routing, hyb, done_order>>
    /\ UNCHANGED <<synVars, appVars>>

\* The candidate lists a routing-table entry can hold.
CandidateLists ==
    {<<>>, <<"gemini">>, <<"perplexity">>,
     <<"gemini", "perplexity">>, <<"perplexity", "gemini">>}

\* api_routing is a plain dict attribute that route_request reads on every
\* call.  The tables it is checked against: the one __init__ builds, and that
\* one with a single entry replaced by any candidate list, or deleted.
RoutingTables ==
    {[InitialRouting EXCEPT ![t] = l] : t \in APIType, l \in CandidateLists}
        \cup {[u \in APIType \ {t} |-> InitialRouting[u]] : t \in APIType}

Init ==
    /\ api_routing = InitialRouting
    /\ call = [s \in Slots |-> IdleCall]
    /\ hyb = IdleHybrid
    /\ done_order = <<>>
    /\ syn = IdleSynth
    /\ assistant = NewAssistant
    /\ orchestrator = NewOrchestrator(TRUE)
    /\ cli = NewCli
    /\ close_calls = 0
    /\ shutdown_tasks = <<>>

Next ==
    \/ \E t \in APIType : RouteCall(t)
    \/ \E c \in Clients, t \in APIType : ExecuteCall(c, t)
    \/ \E s \in Slots : TaskStart(s)
    \/ \E s \in Slots, p \in Payloads : ProviderResponds(s, p)
    \/ \E s \in Slots, k \in UpstreamFailures : ProviderFails(s, k)
    \/ CallerResumes
    \/ \E us \in BOOLEAN, ur \in BOOLEAN : HybridCall(us, ur)
    \/ HybridResume
    \/ HybridCallerResumes

\* The manager as constructed.
Spec == Init /\ [][Next]_vars

\* The manager when every provider call completes and the event loop runs
\* every task that is ready.
SpecFair ==
    /\ Spec
    /\ \A s \in Slots : WF_vars(TaskStart(s)) /\ WF_vars(ProviderCompletes(s))
    /\ WF_vars(HybridResume)

InitAnyRouting ==
    /\ api_routing \in RoutingTables
    /\ call = [s \in Slots |-> IdleCall]
    /\ hyb = IdleHybrid
    /\ done_order = <<>>
    /\ syn = IdleSynth
    /\ assistant = NewAssistant
    /\ orchestrator = NewOrchestrator(TRUE)
    /\ cli = NewCli
    /\ close_calls = 0
    /\ shutdown_tasks = <<>>

\* The manager with any routing table of RoutingTables.
SpecAnyRouting == InitAnyRouting /\ [][Next]_vars

NextSynthesis ==
    \/ SynthesizeCall
    \/ \E a \in GeminiAnswers : SynthesisResponds(a)
    \/ \E k \in UpstreamFailures : SynthesisFails(k)
    \/ SynthCallerResumes

\* The manager's synthesize_responses, on any mapping of SynthInputs.
SpecSynthesis == Init /\ [][NextSynthesis]_vars

NextClients ==
    \/ \E t \in APIType : RouteCall(t)
    \/ \E u \in GeminiUpstreams \cup PerplexityUpstreams : UpstreamAnswers(u)
    \/ \E k \in UpstreamFailures : ProviderFails(Caller, k)
    \/ CallerResumes

\* route_request awaited by one caller, the providers answering with any
\* answer of GeminiUpstreams and PerplexityUpstreams.
SpecClients == Init /\ [][NextClients]_vars

NextCancel ==
    \/ \E s \in Slots : TaskStart(s)
    \/ \E s \in Slots, p \in Payloads : ProviderResponds(s, p)
    \/ \E s \in Slots, k \in UpstreamFailures : ProviderFails(s, k)
    \/ \E s \in Slots : TaskCancelled(s)
    \/ \E us \in BOOLEAN, ur \in BOOLEAN : HybridCall(us, ur)
    \/ HybridResume
    \/ HybridCallerResumes

\* hybrid_request with tasks that can be cancelled one by one.
SpecCancel == Init /\ [][NextCancel]_vars

\* An orchestrator as constructed, AUTONOMOUS_MODE set either way.
InitOrchestrator ==
    /\ api_routing = InitialRouting
    /\ call = [s \in Slots |-> IdleCall]
    /\ hyb = IdleHybrid
    /\ done_order = <<>>
    /\ syn = IdleSynth
    /\ assistant = NewAssistant
    /\ orchestrator \in {ConstructedOrchestrator(m) : m \in BOOLEAN}
    /\ cli = NewCli
    /\ close_calls = 0
    /\ shutdown_tasks = <<>>

NextOrchestrator ==
    \/ OrchInitialize
    \/ OrchStart
    \/ OrchShutdown
    \/ OrchCloseReturns
    \/ OrchCloseFails
    \/ OrchLoopRuns

\* The orchestrator used directly, its methods called in any order.
SpecOrchestrator == InitOrchestrator /\ [][NextOrchestrator]_vars

\* The same on an event loop that runs the loop task when it is ready and a
\* close() that completes.
SpecOrchestratorFair ==
    /\ SpecOrchestrator
    /\ WF_vars(OrchLoopRuns)
    /\ WF_vars(OrchCloseReturns \/ OrchCloseFails)

\* The application after initialize(), AUTONOMOUS_MODE set either way.
InitApp ==
    /\ api_routing = InitialRouting
    /\ call = [s \in Slots |-> IdleCall]
    /\ hyb = IdleHybrid
    /\ done_order = <<>>
    /\ syn = IdleSynth
    /\ assistant = NewAssistant
    /\ orchestrator \in {NewOrchestrator(m) : m \in BOOLEAN}
    /\ cli = NewCli
    /\ close_calls = 0
    /\ shutdown_tasks = <<>>

NextApp ==
    \/ AppStart
    \/ StartFails
    \/ \E c \in Commands : CliInput(c)
    \/ SleepReturns
    \/ CloseReturns
    \/ Signal
    \/ \E i \in 1..MaxSignals : TaskShutdownBegin(i)
    \/ \E i \in 1..MaxSignals : TaskCloseReturns(i)
    \/ AutonomousLoopRuns

\* One run of the application, from main() to its return.
SpecApp == InitApp /\ [][NextApp]_vars

\* The same run on an event loop that runs every coroutine that is ready:
\* main() once its sleep or its close() has returned, the tasks the signal
\* handler and the orchestrator created.  Nothing makes the user type or a
\* signal arrive.
SpecAppFair ==
    /\ SpecApp
    /\ WF_vars(AppStart)
    /\ WF_vars(SleepReturns)
    /\ WF_vars(CloseReturns)
    /\ WF_vars(AutonomousLoopRuns)
    /\ \A i \in 1..MaxSignals :
           WF_vars(TaskShutdownBegin(i)) /\ WF_vars(TaskCloseReturns(i))

(***************************************************************************)
(* Properties of route_request and _execute_request                        *)
(***************************************************************************)

\* The coroutines that are running or have run route_request.
Routed(s) == call[s].op = "route" /\ call[s].pc # "scheduled"

AllFailed(rec) ==
    \A i \in 1..Len(rec.attempts) : IsException(rec.attempts[i].outcome)

\* C1: for a category with candidates [A, B], once A's attempt has failed
\* (with any error, a timeout included) B has been invoked, and when B's
\* call succeeds route returns B's response: the text B's upstream generated,
\* with source B.
C1_FallbackReturnsSecond ==
    \A s \in Slots :
        LET r == call[s]
        IN  (/\ Routed(s)
             /\ Len(r.available_apis) = 2
             /\ Len(r.attempts) >= 1
             /\ IsException(r.attempts[1].outcome))
            => /\ Len(r.attempts) = 2
               /\ r.attempts[2].client = r.available_apis[2]
               /\ IsPayload(r.attempts[2].outcome)
                    => /\ r.pc = "returned"
                       /\ r.result.type = "APIResponse"
                       /\ r.result.content = r.attempts[2].outcome.text
                       /\ r.result.source = r.available_apis[2]

C1_Witness ==
    /\ call[Caller].op = "route"
    /\ call[Caller].request_type = "analysis"
    /\ call[Caller].available_apis = <<"gemini", "perplexity">>
    /\ call[Caller].pc = "returned"
    /\ Len(call[Caller].attempts) = 2
    /\ call[Caller].attempts[1].outcome = UpstreamError("timeout", "gemini")
    /\ call[Caller].result = APIResponse(2, "perplexity")

\* C2 (as amended): when every candidate of a category fails, route raises
\* the first candidate's own exception, unwrapped, and not a later one's.
C2_RaisesFirstError ==
    \A s \in Slots :
        LET r == call[s]
        IN  (Routed(s) /\ Finished(r) /\ r.attempts # <<>> /\ AllFailed(r))
            => /\ r.pc = "raised"
               /\ Len(r.attempts) = Len(r.available_apis)
               /\ r.result = r.attempts[1].outcome

\* C2 (as stated): the exception raised is an AllCandidatesFailedError whose
\* cause is the first candidate's error.
C2_RaisesWrappedFirstError ==
    \A s \in Slots :
        LET r == call[s]
        IN  (Routed(s) /\ Finished(r) /\ r.attempts # <<>> /\ AllFailed(r))
            => /\ r.pc = "raised"
               /\ r.result.kind = "all_candidates_failed"
               /\ r.result.cause = <<r.attempts[1].outcome>>

C2_Witness ==
    /\ call[Caller].op = "route"
    /\ call[Caller].pc = "raised"
    /\ Len(call[Caller].attempts) = 2
    /\ call[Caller].attempts[1].outcome = UpstreamError("http_status", "gemini")
    /\ call[Caller].attempts[2].outcome = UpstreamError("timeout", "perplexity")
    /\ call[Caller].result = UpstreamError("http_status", "gemini")

\* C3: when the primary candidate's call succeeds, route returns its response
\* at once and has invoked no other candidate.
C3_PrimarySuccessReturns ==
    \A s \in Slots :
        LET r == call[s]
        IN  (/\ Routed(s)
             /\ Len(r.attempts) >= 1
             /\ IsPayload(r.attempts[1].outcome))
            => /\ r.pc = "returned"
               /\ Len(r.attempts) = 1
               /\ r.attempts[1].client = r.available_apis[1]
               /\ r.result = APIResponse(r.attempts[1].outcome.text, r.available_apis[1])

C3_Witness ==
    /\ call[Caller].op = "route"
    /\ call[Caller].available_apis = <<"gemini", "perplexity">>
    /\ call[Caller].pc = "returned"
    /\ call[Caller].attempts = <<[client |-> "gemini", network |-> TRUE,
                                  outcome |-> [type |-> "Payload", text |-> 1]]>>
    /\ call[Caller].result = APIResponse(1, "gemini")

\* C4: within one route call the candidates are invoked in routing-table
\* order, each only after the previous one's attempt has ended in a failure,
\* so that at most one attempt (the last) is outstanding.
C4_OneCandidateAtATime ==
    \A s \in Slots :
        LET r == call[s]
        IN  Routed(s)
            => /\ Len(r.attempts) <= Len(r.available_apis)
               /\ \A i \in 1..Len(r.attempts) :
                     /\ r.attempts[i].client = r.available_apis[i]
                     /\ i < Len(r.attempts) => IsException(r.attempts[i].outcome)
               /\ r.pc = "awaiting"
                    <=> (r.attempts # <<>> /\ LastOutcome(r) = Pending)

C4_Witness ==
    /\ call[Caller].op = "route"
    /\ call[Caller].pc = "awaiting"
    /\ Len(call[Caller].attempts) = 2
    /\ IsException(call[Caller].attempts[1].outcome)
    /\ call[Caller].attempts[2] =
           [client |-> "perplexity", network |-> TRUE, outcome |-> Pending]

\* The (client, request type) pairs the claim lists as unsupported.
UnsupportedPairs ==
    {<<"gemini", "search">>, <<"gemini", "fact_check">>,
     <<"perplexity", "reasoning">>, <<"perplexity", "generation">>}

\* C5: dispatching a request type to a client that does not support it fails
\* at once with the unsupported-request-type error, no network call made.
C5_UnsupportedFailsWithoutNetwork ==
    LET r == call[Caller]
    IN  (/\ r.op = "execute"
         /\ <<r.attempts[1].client, r.request_type>> \in UnsupportedPairs)
        => /\ r.pc = "raised"
           /\ r.result = UnsupportedError(r.attempts[1].client)
           /\ \A i \in 1..Len(r.attempts) : ~r.attempts[i].network

C5_Witness ==
    /\ call[Caller].op = "execute"
    /\ call[Caller].request_type = "reasoning"
    /\ call[Caller].pc = "raised"
    /\ call[Caller].attempts =
           <<[client |-> "perplexity", network |-> FALSE,
              outcome |-> UnsupportedError("perplexity")]>>
    /\ call[Caller].result = UnsupportedError("perplexity")

C7_NoCandidatesRaises ==
    \A s \in Slots :
        LET r == call[s]
        IN  (Routed(s) /\ AvailableApis(api_routing, r.request_type) = <<>>)
            => /\ r.pc = "raised"
               /\ r.result = NoApisError
               /\ r.attempts = <<>>

C7_Witness ==
    /\ call[Caller].op = "route"
    /\ call[Caller].request_type \notin DOMAIN api_routing
    /\ call[Caller].pc = "raised"
    /\ call[Caller].result = NoApisError
    /\ call[Caller].attempts = <<>>

(***************************************************************************)
(* Properties of hybrid_request                                            *)
(***************************************************************************)

HybridDone == hyb.pc \in {"returned", "raised"}

\* The labels whose branch was requested and whose route call returned.
SucceededLabels ==
    {l \in {"search", "reasoning"} :
        LET slot == IF l = "search" THEN SearchTask ELSE ReasoningTask
        IN  /\ IF l = "search" THEN hyb.use_search ELSE hyb.use_reasoning
            /\ call[slot].pc = "returned"}

KeySet(dict) == {dict[i].key : i \in 1..Len(dict)}

\* C8: with both flags set, when exactly one branch's route call fails, the
\* hybrid call returns (raises nothing) a mapping whose only key is the other
\* branch's label.
C8_PartialSuccess ==
    (HybridDone /\ hyb.use_search /\ hyb.use_reasoning)
    => /\ (call[SearchTask].pc = "raised" /\ call[ReasoningTask].pc = "returned")
            => /\ hyb.pc = "returned"
               /\ Keys(hyb.results) = <<"reasoning">>
       /\ (call[SearchTask].pc = "returned" /\ call[ReasoningTask].pc = "raised")
            => /\ hyb.pc = "returned"
               /\ Keys(hyb.results) = <<"search">>

C8_Witness ==
    /\ hyb.pc = "returned"
    /\ hyb.use_search /\ hyb.use_reasoning
    /\ call[SearchTask].pc = "raised"
    /\ call[ReasoningTask].pc = "returned"
    /\ Keys(hyb.results) = <<"reasoning">>

\* C9: a failed branch never makes the hybrid call raise, and when every
\* requested branch has failed the call returns the empty mapping.
C9_TotalFailureReturnsEmpty ==
    HybridDone
    => /\ hyb.pc = "returned"
       /\ (\A i \in 1..Len(hyb.tasks) : call[hyb.tasks[i]].pc = "raised")
            => hyb.results = <<>>

C9_Witness ==
    /\ hyb.pc = "returned"
    /\ hyb.use_search /\ hyb.use_reasoning
    /\ call[SearchTask].pc = "raised"
    /\ call[ReasoningTask].pc = "raised"
    /\ hyb.results = <<>>

\* C10: the key set of the mapping hybrid_request returns is exactly the set
\* of labels requested and succeeded, each key once; with both flags set and
\* both route calls successful the keys are "search" and "reasoning".
C10_KeysAreRequestedAndSucceeded ==
    HybridDone
    => /\ hyb.pc = "returned"
       /\ KeySet(hyb.results) = SucceededLabels
       /\ Len(hyb.results) = Cardinality(SucceededLabels)
       /\ (/\ hyb.use_search /\ hyb.use_reasoning
           /\ call[SearchTask].pc = "returned"
           /\ call[ReasoningTask].pc = "returned")
            => KeySet(hyb.results) = {"search", "reasoning"}

C10_Witness ==
    /\ hyb.pc = "returned"
    /\ hyb.use_search /\ hyb.use_reasoning
    /\ call[SearchTask].pc = "returned"
    /\ call[ReasoningTask].pc = "returned"
    /\ Keys(hyb.results) = <<"search", "reasoning">>

\* C11: hybrid_request issues its route calls concurrently: with both flags
\* set both tasks exist from the moment gather is awaited, and a task that
\* has not started can be started whatever state the other one is in.
C11_BranchesRunConcurrently ==
    (hyb.pc = "gathering" /\ hyb.use_search /\ hyb.use_reasoning)
    => \A s \in {SearchTask, ReasoningTask} :
          /\ call[s].pc # "idle"
          /\ call[s].pc = "scheduled" => ENABLED TaskStart(s)

C11_Witness ==
    /\ hyb.pc = "gathering"
    /\ hyb.use_search /\ hyb.use_reasoning
    /\ call[SearchTask].pc = "awaiting"
    /\ call[ReasoningTask].pc = "awaiting"

\* A route call that ran to its own end: it returned its last attempt's
\* response, or raised after every attempt it made had failed.
RanToCompletion(rec) ==
    \/ /\ rec.pc = "returned"
       /\ rec.attempts # <<>>
       /\ IsPayload(LastOutcome(rec))
    \/ /\ rec.pc = "raised"
       /\ AllFailed(rec)
       /\ Len(rec.attempts) = Len(rec.available_apis)

\* C12: hybrid_request returns only after every route call it issued has run
\* to completion; a branch that has ended, either way, leaves its sibling
\* running.
C12_AllBranchesComplete ==
    /\ HybridDone
         => \A i \in 1..Len(hyb.tasks) : RanToCompletion(call[hyb.tasks[i]])
    /\ \A s \in {SearchTask, ReasoningTask} :
          (call[s].op = "route" /\ Finished(call[s])) => RanToCompletion(call[s])

C12_Witness ==
    /\ hyb.pc = "gathering"
    /\ call[SearchTask].pc = "raised"
    /\ call[ReasoningTask].pc = "awaiting"

\* C13: the keys of hybrid_request's result are in the fixed order "search",
\* "reasoning", whichever branch finished first.
C13_KeyOrderFixed ==
    hyb.pc = "returned"
    => Keys(hyb.results) \in {<<>>, <<"search">>, <<"reasoning">>,
                              <<"search", "reasoning">>}

C13_Witness ==
    /\ hyb.pc = "returned"
    /\ done_order = <<ReasoningTask, SearchTask>>
    /\ Keys(hyb.results) = <<"search", "reasoning">>

(***************************************************************************)
(* synthesize_responses                                                    *)
(***************************************************************************)

RECURSIVE SumOfField(_, _, _)

\* The sum of one usage field over the first n input responses, a field an
\* input does not report counting as nothing.
SumOfField(responses, key, n) ==
    IF n = 0 THEN 0
    ELSE SumOfField(responses, key, n - 1)
            + (IF key \in DOMAIN responses[n].value.usage
               THEN responses[n].value.usage[key] ELSE 0)

UsageOf(p, c, t) == [prompt_tokens |-> p, completion_tokens |-> c, total_tokens |-> t]

\* The two inputs of the documented example, under the labels of a hybrid call.
ExampleInputs ==
    <<[key |-> "search",
       value |-> FullResponse(1, "perplexity", UsageOf(10, 5, 15), InputMetadata, NoCitations)],
      [key |-> "reasoning",
       value |-> FullResponse(1, "gemini", UsageOf(20, 10, 30), InputMetadata, NoCitations)]>>

ExampleAnswer ==
    [type |-> "GeminiResponse", content |-> 1, usage |-> UsageOf(3, 2, 5),
     model |-> GeminiModel]

\* C14: the usage of a synthesized response is, field by field, the sum of
\* that field over all input responses plus what the synthesis call itself
\* reported; usages {10,5,15} and {20,10,30} with a synthesis call of {3,2,5}
\* give exactly {33,17,50}.
C14_UsageIsSummed ==
    /\ syn.pc = "returned" =>
           /\ DOMAIN syn.result.usage = UsageKeys
           /\ \A k \in UsageKeys :
                  syn.result.usage[k] =
                      SumOfField(syn.responses, k, Len(syn.responses))
                          + syn.answer.usage[k]
    /\ syn.pc = "idle" =>
           SynthesizeFinish(SynthesizeStart(ExampleInputs, "None"),
                            ExampleAnswer).result.usage = UsageOf(33, 17, 50)

\* Two inputs that both used tokens, one of them reporting no total, were
\* synthesized by a call that used tokens itself.
C14_Witness ==
    /\ syn.pc = "returned"
    /\ Len(syn.responses) = 2
    /\ \E i, j \in 1..2 :
           /\ i # j
           /\ DOMAIN syn.responses[i].value.usage = {"prompt_tokens"}
           /\ syn.responses[i].value.usage["prompt_tokens"] > 0
           /\ DOMAIN syn.responses[j].value.usage = UsageKeys
           /\ syn.responses[j].value.usage["total_tokens"] > 0
    /\ syn.answer.usage["prompt_tokens"] > 0
    /\ syn.result.usage["prompt_tokens"] > syn.result.usage["completion_tokens"]

RECURSIVE Concatenation(_, _)

\* The citation sequences of the first n input responses, one after another.
Concatenation(responses, n) ==
    IF n = 0 THEN <<>>
    ELSE Concatenation(responses, n - 1)
            \o (IF responses[n].value.citations.is_none THEN <<>>
                ELSE responses[n].value.citations.items)

\* C15: the citations of a synthesized response are the input responses'
\* citation sequences concatenated in the mapping's iteration order, nothing
\* removed and nothing reordered; [c1] and [c1, c2] give [c1, c1, c2].
C15_CitationsConcatenated ==
    /\ syn.pc = "returned" =>
           /\ ~syn.result.citations.is_none
           /\ syn.result.citations.items =
                  Concatenation(syn.responses, Len(syn.responses))
    /\ syn.pc = "idle" =>
           Loop(<<[key |-> "search",
                   value |-> FullResponse(1, "perplexity", ZeroUsage, InputMetadata,
                                          CitationList(<<"c1">>))],
                  [key |-> "reasoning",
                   value |-> FullResponse(1, "gemini", ZeroUsage, InputMetadata,
                                          CitationList(<<"c1", "c2">>))]>>, 2).all_citations
               = <<"c1", "c1", "c2">>

\* Two inputs that cite the same record, the second citing another one
\* before it, were synthesized.
C15_Witness ==
    /\ syn.pc = "returned"
    /\ Len(syn.responses) = 2
    /\ ~syn.responses[1].value.citations.is_none
    /\ ~syn.responses[2].value.citations.is_none
    /\ syn.responses[1].value.citations.items = <<"c2">>
    /\ syn.responses[2].value.citations.items = <<"c1", "c2">>
    /\ syn.result.citations.items = <<"c2", "c1", "c2">>

\* C16: every successful synthesize call returns a response whose source is
\* "synthesized" and whose metadata.sources is the list of the input
\* mapping's labels in iteration order.
C16_SourceAndSources ==
    syn.pc = "returned" =>
        /\ syn.result.type = "APIResponse"
        /\ syn.result.source = "synthesized"
        /\ Len(syn.result.metadata.sources) = Len(syn.responses)
        /\ \A i \in 1..Len(syn.responses) :
               syn.result.metadata.sources[i] = syn.responses[i].key

\* A mapping that holds "reasoning" before "search", neither response coming
\* from the client its label suggests, was synthesized.
C16_Witness ==
    /\ syn.pc = "returned"
    /\ Len(syn.responses) = 2
    /\ syn.responses[1].key = "reasoning"
    /\ syn.responses[1].value.source = "perplexity"
    /\ syn.responses[2].key = "search"
    /\ syn.responses[2].value.source = "gemini"
    /\ syn.result.metadata.sources = <<"reasoning", "search">>

\* C17: synthesize has no fallback: it calls only the reasoning-capable
\* provider, exactly once, never the search-capable one, and when that call
\* fails synthesize fails with that same error.
C17_NoFallback ==
    /\ syn.pc # "idle" => syn.calls = <<"gemini">>
    /\ IsException(syn.answer) =>
           /\ syn.pc = "raised"
           /\ syn.result = syn.answer
           /\ syn.result.by = "gemini"

\* The synthesis call timed out on a mapping that holds a search result.
C17_Witness ==
    /\ syn.pc = "raised"
    /\ \E i \in 1..Len(syn.responses) :
           /\ syn.responses[i].key = "search"
           /\ syn.responses[i].value.source = "perplexity"
    /\ syn.answer = UpstreamError("timeout", "gemini")
    /\ syn.result = UpstreamError("timeout", "gemini")

\* The text blocks of the prompt given to the synthesis call.
PromptBlocks == syn.request.full_prompt.blocks

\* C18: the combined text passed to the summarizer holds each input
\* response's content, in the mapping's iteration order, each labelled with
\* the label the mapping holds the response under.
C18_BlocksLabelledByKey ==
    syn.pc # "idle" =>
        /\ Len(PromptBlocks) = Len(syn.responses)
        /\ \A i \in 1..Len(syn.responses) :
               /\ PromptBlocks[i].content = syn.responses[i].value.content
               /\ PromptBlocks[i].label = syn.responses[i].key

\* C18 as stated: each block is labelled by its response's source, the
\* identifier of the provider that produced it.
C18_BlocksLabelledBySource ==
    syn.pc # "idle" =>
        /\ Len(PromptBlocks) = Len(syn.responses)
        /\ \A i \in 1..Len(syn.responses) :
               /\ PromptBlocks[i].content = syn.responses[i].value.content
               /\ PromptBlocks[i].label = syn.responses[i].value.source

\* The synthesis call is given a hybrid result: the search provider's text
\* under "search", then the reasoning provider's different text under
\* "reasoning".
C18_Witness ==
    /\ syn.pc = "awaiting"
    /\ Len(syn.responses) = 2
    /\ syn.responses[1].key = "search"
    /\ syn.responses[1].value.source = "perplexity"
    /\ syn.responses[2].key = "reasoning"
    /\ syn.responses[2].value.source = "gemini"
    /\ syn.responses[1].value.content # syn.responses[2].value.content
    /\ PromptBlocks[1] = [label |-> "search", content |-> syn.responses[1].value.content]
    /\ PromptBlocks[2] = [label |-> "reasoning", content |-> syn.responses[2].value.content]

(***************************************************************************)
(* The application's shutdown                                              *)
(***************************************************************************)

\* C20: over any run of the application (normal exit, signal-triggered
\* shutdown, or error in start) the manager's close operation is called
\* exactly one time: never a second time, and once by the time the run ends.
C20_CloseCalledOnce ==
    /\ close_calls <= 1
    /\ assistant.pc = "exited" => close_calls = 1

(***************************************************************************)
(* The responses route_request returns, in full                            *)
(***************************************************************************)

\* The caller's route_request returned a response.
RouteReturned == call[Caller].op = "route" /\ call[Caller].pc = "returned"

\* The upstream answer that response was built from.
AnsweredBy == LastOutcome(call[Caller])

\* The upstream's answer reports no count for the usage key.
Omits(upstream, key) ==
    IF "usage_metadata" \in DOMAIN upstream
    THEN upstream.usage_metadata = PyNone
    ELSE "usage" \notin DOMAIN upstream \/ key \notin DOMAIN upstream.usage

\* C21: every response returned by route or synthesize has a usage mapping
\* with all three keys prompt_tokens, completion_tokens and total_tokens,
\* a key being 0 when the upstream provider omitted it, also when the search
\* provider's payload has no usage object at all.
C21_UsageHasAllKeys ==
    /\ RouteReturned =>
          \A k \in UsageKeys :
              /\ k \in DOMAIN call[Caller].result.usage
              /\ Omits(AnsweredBy, k) => call[Caller].result.usage[k] = 0
    /\ syn.pc = "returned" => DOMAIN syn.result.usage = UsageKeys

\* C22: the content of every response returned by route is a string,
\* possibly empty, never null, whichever provider produced it and whatever
\* the upstream returned as generated text.
C22_ContentIsAString ==
    RouteReturned =>
        /\ call[Caller].result.content.type = "str"
        /\ call[Caller].result.content # PyNone

(***************************************************************************)
(* The routing table                                                       *)
(***************************************************************************)

\* The clients a candidate list holds.
Listed(candidates) == {candidates[i] : i \in 1..Len(candidates)}

\* C23: in the routing table each of the five categories maps to a
\* non-empty candidate list; Analysis is the only category whose list holds
\* both providers, Reasoning and Generation list only the reasoning provider,
\* Search and FactCheck only the search provider.
C23_RoutingTableShape ==
    /\ DOMAIN api_routing = APIType
    /\ \A t \in APIType : api_routing[t] # <<>>
    /\ \A t \in APIType : Listed(api_routing[t]) = Clients <=> t = "analysis"
    /\ \A t \in {"reasoning", "generation"} : Listed(api_routing[t]) = {"gemini"}
    /\ \A t \in {"search", "fact_check"} : Listed(api_routing[t]) = {"perplexity"}

\* Calls have read the table: a search call was given the search provider
\* alone, and failed with it; an analysis call is on its second provider.
C23_Witness ==
    /\ call[SearchTask].pc = "raised"
    /\ call[SearchTask].available_apis = <<"perplexity">>
    /\ Len(call[SearchTask].attempts) = 1
    /\ call[Caller].request_type = "analysis"
    /\ call[Caller].pc = "awaiting"
    /\ Len(call[Caller].attempts) = 2
    /\ call[Caller].available_apis = api_routing["analysis"]

\* C24: the routing table is not mutated at runtime: after any sequence of
\* calls, successful or failed, it equals the table built at construction.
C24_RoutingTableUnchanged == api_routing = InitialRouting

\* A hybrid call has ended with one branch failed and one answered, and a
\* direct analysis call has returned from its fallback.
C24_Witness ==
    /\ hyb.pc = "returned"
    /\ call[SearchTask].pc = "raised"
    /\ call[ReasoningTask].pc = "returned"
    /\ call[Caller].pc = "returned"
    /\ call[Caller].request_type = "analysis"
    /\ Len(call[Caller].attempts) = 2
    /\ api_routing = InitialRouting

\* C25: entering exit, quit or bye at the prompt exits the assistant: once
\* the CLI loop has ended and start() is in its wait loop, the application
\* eventually runs its shutdown rather than waiting indefinitely.
C25_ExitLeadsToShutdown ==
    (assistant.pc = "sleeping") ~> (assistant.pc \in {"closing", "exited"})

(***************************************************************************)
(* route_request's log                                                     *)
(***************************************************************************)

\* The attempts of a call that have ended with an exception.
FailedAttempts(rec) ==
    {i \in 1..Len(rec.attempts) : IsException(rec.attempts[i].outcome)}

\* The category logged with the failure of attempt i: the one in its own
\* record or, when no candidate is left to attempt, the one in the record
\* the call writes next; "none" when there is none.
LoggedCategory(rec, i) ==
    IF "request_type" \in DOMAIN rec.log[i]
    THEN rec.log[i].request_type
    ELSE IF /\ i = Len(rec.available_apis)
            /\ i < Len(rec.log)
            /\ "request_type" \in DOMAIN rec.log[i + 1]
         THEN rec.log[i + 1].request_type
         ELSE "none"

\* C26: each candidate failure inside route is logged with the category,
\* the provider identity and the error before the next candidate is
\* attempted, and the errors of fallback candidates are only logged, never
\* surfaced to the caller.
C26_FailuresLoggedWithCategory ==
    \A s \in Slots :
        call[s].op = "route" =>
            /\ \A i \in FailedAttempts(call[s]) :
                  /\ i <= Len(call[s].log)
                  /\ call[s].log[i].api = call[s].attempts[i].client
                  /\ call[s].log[i].error = call[s].attempts[i].outcome
                  /\ LoggedCategory(call[s], i) = call[s].request_type
            /\ \A i \in FailedAttempts(call[s]) :
                  i > 1 => call[s].result # call[s].attempts[i].outcome

(***************************************************************************)
(* hybrid_request's values                                                 *)
(***************************************************************************)

\* The route call whose outcome belongs under a label.
BranchOf(label) == IF label = "search" THEN SearchTask ELSE ReasoningTask

\* C27: in hybrid_request's result the value under "search" is the outcome
\* of the Search route call and the value under "reasoning" the outcome of
\* the Reasoning route call, for every flag combination; with use_reasoning
\* alone the Reasoning outcome is read from the first position, not the
\* second.
C27_ValuesMatchTheirBranch ==
    hyb.pc = "returned" =>
        \A i \in 1..Len(hyb.results) :
            LET branch == call[BranchOf(hyb.results[i].key)]
            IN  /\ hyb.results[i].key \in {"search", "reasoning"}
                /\ branch.op = "route"
                /\ branch.request_type = hyb.results[i].key
                /\ branch.pc = "returned"
                /\ hyb.results[i].value = branch.result

\* With use_reasoning alone the mapping holds the Reasoning call's response
\* under "reasoning"; the slot of the search task is left over from nothing.
C27_Witness ==
    /\ hyb.pc = "returned"
    /\ ~hyb.use_search
    /\ hyb.use_reasoning
    /\ hyb.tasks = <<ReasoningTask>>
    /\ hyb.results = <<[key |-> "reasoning", value |-> call[ReasoningTask].result]>>
    /\ call[ReasoningTask].result.source = "gemini"
    /\ call[SearchTask].pc = "idle"

(***************************************************************************)
(* Upstream requests per route call                                        *)
(***************************************************************************)

\* The upstream requests a call has caused.
UpstreamRequests(rec) == {i \in 1..Len(rec.attempts) : rec.attempts[i].network}

\* C28: one route call invokes each candidate of the category at most once,
\* in list order, and causes at most one upstream request per candidate: the
\* upstream requests number at most the length of the candidate list,
\* whatever the pattern of failures.
C28_OneRequestPerCandidate ==
    \A s \in Slots :
        call[s].op = "route" =>
            /\ Len(call[s].attempts) <= Len(call[s].available_apis)
            /\ \A i \in 1..Len(call[s].attempts) :
                  call[s].attempts[i].client = call[s].available_apis[i]
            /\ Cardinality(UpstreamRequests(call[s])) <= Len(call[s].available_apis)

\* A call on two candidates has failed with both: two upstream requests, one
\* to each.
C28_Witness ==
    /\ call[Caller].op = "route"
    /\ call[Caller].pc = "raised"
    /\ Len(call[Caller].available_apis) = 2
    /\ Cardinality(UpstreamRequests(call[Caller])) = 2
    /\ call[Caller].attempts[1].client # call[Caller].attempts[2].client
    /\ IsException(call[Caller].attempts[2].outcome)

(***************************************************************************)
(* Concurrent callers                                                      *)
(***************************************************************************)

\* The result a finished route call has, given its own provider calls only.
OwnResult(rec) ==
    IF rec.pc = "returned"
    THEN Normalize(LastOutcomeClient(rec), LastOutcome(rec))
    ELSE IF rec.attempts = <<>> THEN NoApisError ELSE rec.attempts[1].outcome

\* C29: the router and the hybrid executor are safe for concurrent callers:
\* when route and hybrid_request calls interleave, a step of one call (its
\* provider answering or failing) changes no other call's frame, and each
\* call's result is the one its own provider calls determine.
C29_CallsDoNotInterfere ==
    /\ [](\A s \in Slots :
             (call[s].op = "route" /\ Finished(call[s]))
                => call[s].result = OwnResult(call[s]))
    /\ [][\A s \in Slots :
             (call[s].pc = "awaiting" /\ call'[s] # call[s])
                => \A t \in Slots \ {s} : call'[t] = call[t]]_vars

\* Three route calls are under way at once: the direct one has returned from
\* its fallback, one hybrid branch has failed, the other is still awaited.
C29_Witness ==
    /\ hyb.pc = "gathering"
    /\ call[Caller].pc = "returned"
    /\ call[Caller].request_type = "analysis"
    /\ Len(call[Caller].attempts) = 2
    /\ call[ReasoningTask].pc = "raised"
    /\ call[SearchTask].pc = "awaiting"

(***************************************************************************)
(* The source of a routed response                                         *)
(***************************************************************************)

\* C30: a response returned by route for a category comes from a provider
\* in that category's candidate list: Reasoning and Generation responses
\* have source "gemini", Search and FactCheck responses have source
\* "perplexity", and only Analysis can have either.
C30_SourceIsACandidate ==
    \A s \in Slots :
        (call[s].op = "route" /\ call[s].pc = "returned") =>
            /\ call[s].result.source \in Listed(api_routing[call[s].request_type])
            /\ call[s].request_type \in {"reasoning", "generation"}
                  => call[s].result.source = "gemini"
            /\ call[s].request_type \in {"search", "fact_check"}
                  => call[s].result.source = "perplexity"
            /\ call[s].result.source \in Clients

\* Three responses at once: Reasoning answered by gemini, Search by
\* perplexity, and Analysis by perplexity after gemini failed.
C30_Witness ==
    /\ call[ReasoningTask].pc = "returned"
    /\ call[ReasoningTask].result.source = "gemini"
    /\ call[SearchTask].pc = "returned"
    /\ call[SearchTask].result.source = "perplexity"
    /\ call[Caller].pc = "returned"
    /\ call[Caller].op = "route"
    /\ call[Caller].request_type = "analysis"
    /\ call[Caller].result.source = "perplexity"

(***************************************************************************)
(* The values of hybrid_request's mapping                                  *)
(***************************************************************************)

\* C31: every value in the mapping returned by hybrid_request is a provider
\* response: a branch that ended with an error or was cancelled never
\* appears as a value under its label.
C31_ValuesAreResponses ==
    hyb.pc = "returned" =>
        \A i \in 1..Len(hyb.results) :
            hyb.results[i].value.type = "APIResponse"

(***************************************************************************)
(* synthesize_responses and its inputs                                     *)
(***************************************************************************)

\* C32: synthesize leaves its input responses unchanged: after the call,
\* successful or failed, every input response's content, usage, metadata and
\* citations equal their values before the call, and the output's usage and
\* citations are fresh values not shared with any input.
C32_InputsUnchanged ==
    /\ syn.pc \in {"returned", "raised"} =>
           /\ Len(syn.inputs) = Len(syn.responses)
           /\ \A n \in 1..Len(syn.responses) :
                  /\ syn.inputs[n].key = syn.responses[n].key
                  /\ syn.inputs[n].value.content = syn.responses[n].value.content
                  /\ syn.inputs[n].value.usage = syn.responses[n].value.usage
                  /\ syn.inputs[n].value.metadata = syn.responses[n].value.metadata
                  /\ syn.inputs[n].value.citations = syn.responses[n].value.citations
    /\ syn.pc = "returned" =>
           /\ syn.refs.usage \notin InputRefs(syn.responses)
           /\ syn.refs.citations \notin InputRefs(syn.responses)

\* A call that read an input with an incomplete usage dict and an input
\* with citations has returned, its own usage and citations filled in.
C32_Witness ==
    /\ syn.pc = "returned"
    /\ Len(syn.responses) = 2
    /\ DOMAIN syn.responses[1].value.usage = {"prompt_tokens"}
    /\ ~syn.responses[2].value.citations.is_none
    /\ Len(syn.responses[2].value.citations.items) = 2
    /\ syn.result.citations.items = syn.responses[2].value.citations.items
    /\ syn.result.usage["prompt_tokens"] > 0
    /\ syn.inputs = syn.responses

\* C33: synthesize on an empty mapping (the valid result of a hybrid call
\* whose branches all failed) still makes exactly one reasoning-provider
\* call and, when it succeeds, returns source "synthesized" with usage equal
\* to that call's usage, an empty citation list and an empty
\* metadata.sources list.
C33_EmptyMappingSynthesized ==
    \/ syn.pc = "idle" /\ SynthesizeStart(<<>>, "None").pc = "awaiting"
    \/ syn.pc # "idle" /\ syn.responses # <<>>
    \/ /\ syn.pc # "idle"
       /\ syn.responses = <<>>
       /\ syn.calls = <<"gemini">>
       /\ syn.request.full_prompt.blocks = <<>>
       /\ syn.pc = "returned" =>
              /\ syn.result.source = "synthesized"
              /\ syn.result.usage = syn.answer.usage
              /\ syn.result.citations = CitationList(<<>>)
              /\ syn.result.metadata.sources = <<>>
       /\ syn.pc = "raised" => syn.result = syn.answer

\* The synthesis of an empty mapping has returned, the call having used
\* tokens.
C33_Witness ==
    /\ syn.pc = "returned"
    /\ syn.responses = <<>>
    /\ syn.calls = <<"gemini">>
    /\ syn.answer.usage["total_tokens"] > 0
    /\ syn.result.usage = syn.answer.usage
    /\ syn.result.citations.items = <<>>

(***************************************************************************)
(* Termination                                                             *)
(***************************************************************************)

\* C34: provided every provider call eventually completes (with a response
\* or an error), every route call eventually terminates with either a
\* response or a raised error, and every hybrid_request call eventually
\* returns a mapping.
C34_CallsTerminate ==
    /\ \A s \in Slots :
           (call[s].pc \in {"scheduled", "awaiting"}) ~> Finished(call[s])
    /\ (hyb.pc = "gathering") ~> (hyb.pc = "returned")

\* A hybrid call has returned a mapping after one of its branches failed,
\* and a direct call has ended with an error after both its candidates
\* failed.
C34_Witness ==
    /\ hyb.pc = "returned"
    /\ Len(hyb.results) = 1
    /\ call[SearchTask].pc = "raised"
    /\ call[Caller].op = "route"
    /\ call[Caller].pc = "raised"
    /\ Len(call[Caller].attempts) = 2

(***************************************************************************)
(* The orchestrator                                                        *)
(***************************************************************************)

\* C35: the autonomous loop only sleeps on an interval: while it runs it
\* issues no route, hybrid_request or synthesize call and changes no
\* orchestrator state.
C35_LoopOnlySleeps ==
    [][AutonomousLoopRuns =>
          /\ call' = call /\ hyb' = hyb /\ syn' = syn
          /\ api_routing' = api_routing
          /\ orchestrator'.running = orchestrator.running
          /\ orchestrator'.api_manager = orchestrator.api_manager
          /\ orchestrator'.autonomous_mode = orchestrator.autonomous_mode
          /\ close_calls' = close_calls]_vars

\* The loop has run and sleeps, the orchestrator still running, while the
\* application waits at its prompt.
C35_Witness ==
    /\ orchestrator.autonomous_mode
    /\ orchestrator.loop = "sleeping"
    /\ orchestrator.running
    /\ assistant.pc = "cli_prompt"
    /\ shutdown_tasks = <<>>

\* C36: calling the orchestrator's start before initialize fails with a
\* "not initialized" error and leaves running false with no autonomous loop
\* started; the autonomous loop is started only by a start call made after
\* initialize and only when autonomous mode is enabled.
C36_StartNeedsInitialize ==
    /\ [](orchestrator.api_manager = "None" =>
             /\ ~orchestrator.running
             /\ orchestrator.loop = "none"
             /\ orchestrator.client.op = "start"
                   => orchestrator.client.error = NotInitializedError)
    /\ [](orchestrator.client.error = NotInitializedError =>
             /\ orchestrator.client.op = "start"
             /\ orchestrator.api_manager = "None")
    /\ [](orchestrator.loop # "none" =>
             orchestrator.api_manager # "None" /\ orchestrator.autonomous_mode)
    /\ [][orchestrator'.loop = "pending" /\ orchestrator.loop # "pending" =>
             /\ orchestrator.api_manager # "None"
             /\ orchestrator.autonomous_mode
             /\ orchestrator'.client.op = "start"
             /\ orchestrator'.client.error = "none"]_vars

\* In autonomous mode a start before initialize has failed, nothing started.
C36_Witness ==
    /\ orchestrator.autonomous_mode
    /\ orchestrator.api_manager = "None"
    /\ orchestrator.client.op = "start"
    /\ orchestrator.client.error = NotInitializedError
    /\ ~orchestrator.running
    /\ orchestrator.loop = "none"

\* The loop tasks that have not ended.
LoopAlive == orchestrator.loop \in {"pending", "sleeping"}

====
